---- MODULE Spec2Model ----
(***************************************************************************)
(* Model of the caption timeline editor (WaveformEditor) and of the        *)
(* burn-in export pipeline (App.startRendering / closeExport).             *)
(*                                                                         *)
(* Times are integers in milliseconds, pointer positions integers in       *)
(* pixels.  zoomLevel is the rational n/d pixels per second.  A pixel      *)
(* distance is converted to a time only where the quotient is a whole      *)
(* number of milliseconds (XExact / DtExact), so every time of the model   *)
(* is the exact real-number result of the source's formula; the rounding   *)
(* of IEEE doubles is not modelled.                                        *)
(***************************************************************************)
EXTENDS Integers, Sequences, FiniteSets, TLC

(* ------------------------------ bounds -------------------------------- *)

\* pointer positions are the multiples of PxStep in 0 .. canvas width
PxStep == 25
\* the canvas is NumXSteps pointer columns wide
NumXSteps == 4
\* the video lasts DurationSteps playback steps
DurationSteps == 3
\* captions that can be added
MaxSubs == 1
\* pointer-down events (drag sessions) in one behaviour of the editing spec
MaxPointerDowns == 2
\* zoom button presses in one behaviour
MaxZoomOps == 1
\* Start Render presses in one behaviour of the export spec
MaxStarts == 2
\* pointer-down events in one behaviour of the export-with-timeline spec
MaxExportPointerDowns == 1
\* captions in a collection at the start of a drag session
MaxSessionSubs == 2
\* a drag session's pointer positions lie SessionPxStep apart around the playhead
SessionPxStep == 5
\* ... up to SessionXSteps of them on either side
SessionXSteps == 4
\* the mapper is tried on every MapperPxStep-th pixel column of the canvas
MapperPxStep == 10
\* ... on the times 0.0, 0.1, ... up to MapperTimeTenths tenths of a second
MapperTimeTenths == 10
\* ... with the center time 0.0, 0.1, ... up to MapperCenterTenths tenths
MapperCenterTenths == 2
\* samples in the decoded audio
WaveSamples == 120
\* the waveform is drawn with the playhead at 0 .. WaveFineSteps ms and as many
\* steps from WaveFar ms on
\* captions in a collection handed to generateSRT
MaxSrtSubs == 3
\* zoom button presses in the zoom specification
MaxZoomSteps == 6
WaveFineSteps == 2
WaveFar == 110
\* captions in a collection handed to the compositor
MaxCompositorSubs == 2
\* caption starts of those collections, in playback steps from 0
CompositorStartSteps == 2

(* -------------------------- program constants ------------------------- *)

InitialZoom == 50
MaxZoom == 500
MinZoom == 10
handleHitWidth == 10
MinMoveDuration == 100
MinResizeDuration == 200
DefaultDuration == 2000

\* null for a caption id (ids start at 1)
NULL == 0

Max(a, b) == IF a >= b THEN a ELSE b
Min(a, b) == IF a <= b THEN a ELSE b
Abs(a) == IF a >= 0 THEN a ELSE 0 - a

RECURSIVE Gcd(_, _)
Gcd(a, b) == IF b = 0 THEN a ELSE Gcd(b, a % b)

\* the rational n/d in lowest terms
Rat(n, d) == [n |-> n \div Gcd(n, d), d |-> d \div Gcd(n, d)]
RatLeq(p, q) == p.n * q.d <= q.n * p.d

(* ------------------- IEEE 754 binary64 arithmetic ---------------------- *)
(* JavaScript numbers.  A natural number of any size is the sequence of    *)
(* its digits in base Radix, least significant first and without leading   *)
(* zeros; a double is the record [s, m, e] with value s * m * 2^e, where m *)
(* is 0 (the empty sequence) or has exactly Precision binary digits.       *)
(* Every operation rounds the exact result to nearest, ties to even.       *)
(* Overflow, subnormals and NaN do not occur in the range the editor       *)
(* works in.                                                               *)

Precision == 53
RadixBits == 14
Radix == 16384

Pow2(k) == 2 ^ k

\* a without its leading zero digits
BTrim(a) ==
    LET zeros == {n \in 1 .. Len(a) : \A i \in (Len(a) + 1 - n) .. Len(a) : a[i] = 0}
    IN SubSeq(a, 1, Len(a) - Cardinality(zeros))

RECURSIVE BFromNat(_)
BFromNat(n) == IF n = 0 THEN <<>> ELSE <<n % Radix>> \o BFromNat(n \div Radix)

\* digit i of the natural a
Digit(a, i) == IF i <= Len(a) THEN a[i] ELSE 0

\* a < b
BLess(a, b) ==
    \/ Len(a) < Len(b)
    \/ /\ Len(a) = Len(b)
       /\ \E i \in 1 .. Len(a) : /\ a[i] < b[i]
                                 /\ \A j \in (i + 1) .. Len(a) : a[j] = b[j]

RECURSIVE BAddFrom(_, _, _, _)
BAddFrom(a, b, i, carry) ==
    IF i > Len(a) /\ i > Len(b)
    THEN IF carry = 0 THEN <<>> ELSE <<carry>>
    ELSE LET sum == Digit(a, i) + Digit(b, i) + carry
         IN <<sum % Radix>> \o BAddFrom(a, b, i + 1, sum \div Radix)

BAdd(a, b) == BAddFrom(a, b, 1, 0)

RECURSIVE BSubFrom(_, _, _, _)
BSubFrom(a, b, i, borrow) ==
    IF i > Len(a) THEN <<>>
    ELSE LET diff == Digit(a, i) - Digit(b, i) - borrow
         IN <<diff % Radix>> \o BSubFrom(a, b, i + 1, IF diff < 0 THEN 1 ELSE 0)

\* a - b, for a >= b
BSub(a, b) == BTrim(BSubFrom(a, b, 1, 0))

\* a * d, for a digit d
RECURSIVE BMulDigitFrom(_, _, _, _)
BMulDigitFrom(a, d, i, carry) ==
    IF i > Len(a)
    THEN IF carry = 0 THEN <<>> ELSE <<carry>>
    ELSE LET prod == a[i] * d + carry
         IN <<prod % Radix>> \o BMulDigitFrom(a, d, i + 1, prod \div Radix)

BMulDigit(a, d) == IF d = 0 THEN <<>> ELSE BMulDigitFrom(a, d, 1, 0)

\* a * Radix^k
BShlDigits(a, k) == IF a = <<>> THEN a ELSE [i \in 1 .. k |-> 0] \o a

RECURSIVE BMulFrom(_, _, _)
BMulFrom(a, b, i) ==
    IF i > Len(b) THEN <<>>
    ELSE BAdd(BShlDigits(BMulDigit(a, b[i]), i - 1), BMulFrom(a, b, i + 1))

BMul(a, b) == BMulFrom(a, b, 1)

\* a * 2^k
BShl(a, k) == BMulDigit(BShlDigits(a, k \div RadixBits), Pow2(k % RadixBits))

\* the quotient of a by the digit d > 0, from digit i down, rem carried in
RECURSIVE BDivDigitFrom(_, _, _, _)
BDivDigitFrom(a, d, i, rem) ==
    IF i = 0 THEN <<>>
    ELSE LET cur == rem * Radix + a[i]
         IN BDivDigitFrom(a, d, i - 1, cur % d) \o <<cur \div d>>

\* a \div 2^k
BShr(a, k) ==
    IF k \div RadixBits >= Len(a) THEN <<>>
    ELSE LET top == SubSeq(a, k \div RadixBits + 1, Len(a))
         IN BTrim(BDivDigitFrom(top, Pow2(k % RadixBits), Len(top), 0))

\* the number of binary digits of the digit d
DigitBits(d) == Cardinality({k \in 0 .. (RadixBits - 1) : Pow2(k) <= d})

\* the number of binary digits of a
BitLen(a) == IF a = <<>> THEN 0 ELSE RadixBits * (Len(a) - 1) + DigitBits(a[Len(a)])

\* the largest digit q with q * b <= r, for r < b * Radix: found in steps of
\* 1024, then of 32, then of 1
QuotientDigit(r, b) ==
    LET Fits(q) == ~BLess(r, BMulDigit(b, q))
        q1 == 1024 * (Cardinality({h \in 0 .. 15 : Fits(1024 * h)}) - 1)
        q2 == q1 + 32 * (Cardinality({h \in 0 .. 31 : Fits(q1 + 32 * h)}) - 1)
    IN q2 + Cardinality({h \in 0 .. 31 : Fits(q2 + h)}) - 1

\* long division of a by b > 0 from digit i down, the remainder r carried in:
\* the quotient's digits below i, the highest first, and the final remainder
RECURSIVE BDivFrom(_, _, _, _)
BDivFrom(a, b, i, r) ==
    IF i = 0 THEN [q |-> <<>>, r |-> r]
    ELSE LET r1 == BTrim(<<a[i]>> \o r)
             qd == QuotientDigit(r1, b)
             rest == BDivFrom(a, b, i - 1, BSub(r1, BMulDigit(b, qd)))
         IN [q |-> <<qd>> \o rest.q, r |-> rest.r]

\* a \div b and a % b, for b > 0: the top Len(b) - 1 digits of a are below b and
\* start the remainder
BDivMod(a, b) ==
    LET n == IF Len(a) < Len(b) THEN Len(a) ELSE Len(b) - 1
        qr == BDivFrom(a, b, Len(a) - n, SubSeq(a, Len(a) - n + 1, Len(a)))
    IN [q |-> BTrim([i \in 1 .. Len(qr.q) |-> qr.q[Len(qr.q) + 1 - i]]), r |-> qr.r]

FZero == [s |-> 1, m |-> <<>>, e |-> 0]

\* the double nearest to s * (M + f) * 2^e, where 0 <= f < 1 and f > 0 iff sticky;
\* M has more than Precision binary digits whenever sticky
FRound(s, M, e, sticky) ==
    IF M = <<>> THEN FZero
    ELSE IF BitLen(M) <= Precision
    THEN [s |-> s, m |-> BShl(M, Precision - BitLen(M)), e |-> e - (Precision - BitLen(M))]
    ELSE LET k == BitLen(M) - Precision
             kept == BShr(M, k)
             low == BSub(M, BShl(kept, k))
             half == BShl(<<1>>, k - 1)
             up == \/ BLess(half, low)
                   \/ low = half /\ (sticky \/ kept[1] % 2 = 1)
             m1 == IF up THEN BAdd(kept, <<1>>) ELSE kept
         IN IF BitLen(m1) > Precision
            THEN [s |-> s, m |-> BShr(m1, 1), e |-> e + k + 1]
            ELSE [s |-> s, m |-> m1, e |-> e + k]

\* the integer n as a double
FInt(n) == FRound(IF n < 0 THEN -1 ELSE 1, BFromNat(IF n < 0 THEN 0 - n ELSE n), 0, FALSE)

FNeg(x) == IF x.m = <<>> THEN x ELSE [x EXCEPT !.s = 0 - x.s]

\* x + y
FAdd(x, y) ==
    IF x.m = <<>> THEN y
    ELSE IF y.m = <<>> THEN x
    ELSE LET e == IF x.e <= y.e THEN x.e ELSE y.e
             X == BShl(x.m, x.e - e)
             Y == BShl(y.m, y.e - e)
         IN IF x.s = y.s THEN FRound(x.s, BAdd(X, Y), e, FALSE)
            ELSE IF X = Y THEN FZero
            ELSE IF BLess(X, Y) THEN FRound(y.s, BSub(Y, X), e, FALSE)
            ELSE FRound(x.s, BSub(X, Y), e, FALSE)

\* x - y
FSub(x, y) == FAdd(x, FNeg(y))

\* x * y
FMul(x, y) ==
    IF x.m = <<>> \/ y.m = <<>> THEN FZero
    ELSE FRound(x.s * y.s, BMul(x.m, y.m), x.e + y.e, FALSE)

\* x / y, for y # 0
FDiv(x, y) ==
    IF x.m = <<>> THEN FZero
    ELSE LET qr == BDivMod(BShl(x.m, Precision + 3), y.m)
         IN FRound(x.s * y.s, qr.q, x.e - y.e - (Precision + 3), qr.r # <<>>)

\* |x| <= 2^k, for k < 0
FAbsLeqPow2(x, k) ==
    \/ x.m = <<>>
    \/ x.e + Precision <= k
    \/ x.e + Precision = k + 1 /\ x.m = BShl(<<1>>, Precision - 1)

\* the natural number a digit sequence stands for (below 2^31)
RECURSIVE BToNat(_)
BToNat(a) == IF a = <<>> THEN 0 ELSE a[1] + Radix * BToNat(Tail(a))

\* ToIntegerOrInfinity(x): x with its fraction dropped, for |x| < 2^31
FTrunc(x) ==
    IF x.m = <<>> THEN 0
    ELSE x.s * BToNat(IF x.e >= 0 THEN BShl(x.m, x.e) ELSE BShr(x.m, 0 - x.e))

(* --------------------------- the environment -------------------------- *)

\* canvas.width (window.innerWidth)
CanvasWidth == NumXSteps * PxStep
PointerXs == {k * PxStep : k \in 0 .. NumXSteps}
\* one playback step: the time one pointer column spans at the initial zoom
PlayStep == (PxStep * 1000) \div InitialZoom
\* video.duration
Duration == DurationSteps * PlayStep

VARIABLES
    subtitles,          \* the caption collection (App state, mirrored in stateRef / subtitlesRef)
    selectedSubId,
    zoomLevel,
    isDragging, dragMode, dragTargetId, dragStartX, dragStartTime,
    dragOriginalStart, dragOriginalEnd,
    isPlaying,          \* stateRef.current.isPlaying: playing at the scrub's pointer-down
    currentTime,        \* video.currentTime
    paused,             \* video.paused
    nextId,             \* ids handed out so far + 1
    pointerDowns,       \* pointer-down events so far
    zoomOps,            \* zoom button presses so far
    volume,             \* video.volume, in percent
    isExportingVideo, renderStatus, exportProgress, mutePreview,
    previousVolumeRef,
    supportedTypes,     \* the entries of mimeTypes MediaRecorder.isTypeSupported accepts
    recorders,          \* the MediaRecorder of every session that created one
    mediaRecorderRef,   \* index into recorders, 0 for null
    pendingPlay,        \* sessions whose video.play() promise is not settled
    frameCallbacks,     \* sessions with a registered renderFrame callback
    renderLoopIdRef,    \* session whose callback id renderLoopIdRef holds, 0 at first
    canvas,             \* the frame last composited on renderCanvas
    downloads,          \* sessions whose recording was assembled and downloaded
    alerts,             \* alert() calls so far
    starts,             \* Start Render presses so far
    audioBuffer,        \* the decoded audio: sampleRate and channelData
    bars,               \* the waveform buckets the last draw rendered, by absolute index
    prevBars,           \* those of the draw before
    mapper,             \* a viewport, a pixel or time, and its trip through both mapper functions
    srtDownload,        \* the subtitles.srt file last handed to the browser
    overlay             \* the caption overlay of the preview: display, innerText, time of the update

timelineVars == <<subtitles, selectedSubId, zoomLevel, isDragging, dragMode, dragTargetId,
                  dragStartX, dragStartTime, dragOriginalStart, dragOriginalEnd, isPlaying,
                  currentTime, paused, nextId, pointerDowns, zoomOps>>

\* the editor state no export handler writes
editVars == <<subtitles, selectedSubId, zoomLevel, isDragging, dragMode, dragTargetId,
              dragStartX, dragStartTime, dragOriginalStart, dragOriginalEnd, isPlaying,
              nextId, pointerDowns, zoomOps>>

exportVars == <<volume, isExportingVideo, renderStatus, exportProgress, mutePreview,
                previousVolumeRef, supportedTypes, recorders, mediaRecorderRef, pendingPlay,
                frameCallbacks, renderLoopIdRef, canvas, downloads, alerts, starts>>

\* what the timeline painter and the mapper functions work on
drawVars == <<audioBuffer, bars, prevBars, mapper, srtDownload, overlay>>

vars == <<timelineVars, exportVars, drawVars>>

(* -------------------------- time/pixel mapper ------------------------- *)

\* (x - width/2) / zoom is a whole number of milliseconds
XExact(x, width, zoom) == ((2 * x - width) * 1000 * zoom.d) % (2 * zoom.n) = 0

xToTime(x, centerTime, width, zoom) ==
    centerTime + ((2 * x - width) * 1000 * zoom.d) \div (2 * zoom.n)

\* dx / zoom is a whole number of milliseconds
DtExact(dx, zoom) == (dx * 1000 * zoom.d) % zoom.n = 0

\* dt = dx / zoom
DtOf(dx, zoom) == (dx * 1000 * zoom.d) \div zoom.n

\* |a - b| < handleHitWidth / zoom
WithinHandle(a, b, zoom) == Abs(a - b) * zoom.n < handleHitWidth * 1000 * zoom.d

\* a >= b - handleHitWidth / zoom
GeqMinusHandle(a, b, zoom) == (a - b) * zoom.n >= 0 - handleHitWidth * 1000 * zoom.d

\* a <= b + handleHitWidth / zoom
LeqPlusHandle(a, b, zoom) == (a - b) * zoom.n <= handleHitWidth * 1000 * zoom.d

\* xToTime as the JavaScript engine computes it, on doubles
xToTimeDouble(x, centerTime, width, zoom) ==
    LET centerX == FDiv(width, FInt(2))
        diffX == FSub(x, centerX)
    IN FAdd(centerTime, FDiv(diffX, zoom))

\* a time-to-pixel conversion that forgets the center time
timeToXNoCenter(time, centerTime, width, zoom) ==
    LET centerX == FDiv(width, FInt(2))
    IN FAdd(centerX, FMul(time, zoom))

\* timeToX as the JavaScript engine computes it, on doubles
timeToXDouble(time, centerTime, width, zoom) ==
    LET centerX == FDiv(width, FInt(2))
        diffTime == FSub(time, centerTime)
    IN FAdd(centerX, FMul(diffTime, zoom))

(* ------------------------------ hit test ------------------------------ *)

\* a hit test that takes the whole expanded interval for the caption's body
HitTypeOfExpanded(sub, timeAtCursor, zoom, selected) ==
    IF GeqMinusHandle(timeAtCursor, sub.start, zoom) /\ LeqPlusHandle(timeAtCursor, sub.end, zoom)
    THEN IF sub.id = selected /\ WithinHandle(timeAtCursor, sub.start, zoom) THEN "left"
         ELSE IF sub.id = selected /\ WithinHandle(timeAtCursor, sub.end, zoom) THEN "right"
         ELSE "body"
    ELSE "none"

\* what the loop body of handlePointerDown decides for caption sub
HitTypeOf(sub, timeAtCursor, zoom, selected) ==
    IF GeqMinusHandle(timeAtCursor, sub.start, zoom) /\ LeqPlusHandle(timeAtCursor, sub.end, zoom)
    THEN IF sub.id = selected /\ WithinHandle(timeAtCursor, sub.start, zoom) THEN "left"
         ELSE IF sub.id = selected /\ WithinHandle(timeAtCursor, sub.end, zoom) THEN "right"
         ELSE IF timeAtCursor >= sub.start /\ timeAtCursor <= sub.end THEN "body"
         ELSE "none"
    ELSE "none"

\* the index the reverse loop breaks at, 0 when it runs to the end
HitIndex(subs, timeAtCursor, zoom, selected) ==
    LET hits == {i \in 1 .. Len(subs) : HitTypeOf(subs[i], timeAtCursor, zoom, selected) # "none"}
    IN IF hits = {} THEN 0 ELSE CHOOSE i \in hits : \A j \in hits : j <= i

\* subs.find(s => s.id === id)
FindById(subs, id) ==
    LET idx == {i \in 1 .. Len(subs) : subs[i].id = id}
    IN subs[CHOOSE i \in idx : \A j \in idx : i <= j]

\* the caption s put behind every caption of sorted that starts no later
InsertByStart(sorted, s) ==
    LET before == {i \in 1 .. Len(sorted) : sorted[i].start <= s.start}
        k == Cardinality(before)
    IN SubSeq(sorted, 1, k) \o <<s>> \o SubSeq(sorted, k + 1, Len(sorted))

\* subtitles.sort((a, b) => a.start - b.start), the stable sort of the array itself
RECURSIVE SortByStart(_)
SortByStart(subs) ==
    IF subs = <<>> THEN <<>>
    ELSE InsertByStart(SortByStart(SubSeq(subs, 1, Len(subs) - 1)), subs[Len(subs)])

(* ------------------------------- Init --------------------------------- *)

\* the editor with a video loaded (handleFileUpload: no captions, nothing selected)
InitTimeline ==
    /\ subtitles = <<>>
    /\ selectedSubId = NULL
    /\ zoomLevel = Rat(InitialZoom, 1)
    /\ isDragging = FALSE
    /\ dragMode = "none"
    /\ dragTargetId = NULL
    /\ dragStartX = 0
    /\ dragStartTime = 0
    /\ dragOriginalStart = 0
    /\ dragOriginalEnd = 0
    /\ isPlaying = FALSE
    /\ currentTime = 0
    /\ paused = TRUE
    /\ nextId = 1
    /\ pointerDowns = 0
    /\ zoomOps = 0

(* ------------------------- timeline interaction ----------------------- *)

\* handlePointerDown; a pointer-down comes only when no drag session is live
\* (single-pointer input).  Clearing the selection makes App render the caption
\* list, which sorts the caption array in place.
PointerDown(x) ==
    /\ ~isDragging
    /\ XExact(x, CanvasWidth, zoomLevel)
    /\ LET timeAtCursor == xToTime(x, currentTime, CanvasWidth, zoomLevel)
           hit == HitIndex(subtitles, timeAtCursor, zoomLevel, selectedSubId)
       IN /\ isDragging' = TRUE
          /\ dragStartX' = x
          /\ dragStartTime' = currentTime
          /\ IF hit # 0
             THEN LET hitSubId == subtitles[hit].id
                      hitType == HitTypeOf(subtitles[hit], timeAtCursor, zoomLevel, selectedSubId)
                      sub == FindById(subtitles, hitSubId)
                  IN /\ dragTargetId' = hitSubId
                     /\ dragOriginalStart' = sub.start
                     /\ dragOriginalEnd' = sub.end
                     /\ selectedSubId' = hitSubId
                     /\ dragMode' = CASE hitType = "body" -> "move-sub"
                                      [] hitType = "left" -> "resize-left"
                                      [] hitType = "right" -> "resize-right"
                     /\ paused' = TRUE
                     /\ UNCHANGED isPlaying
                     /\ UNCHANGED subtitles
             ELSE /\ dragMode' = "scrub"
                  /\ selectedSubId' = NULL
                  /\ subtitles' = SortByStart(subtitles)
                  /\ isPlaying' = ~paused
                  /\ paused' = TRUE
                  /\ UNCHANGED <<dragTargetId, dragOriginalStart, dragOriginalEnd>>
    /\ pointerDowns' = pointerDowns + 1
    /\ UNCHANGED <<zoomLevel, currentTime, nextId, zoomOps>>
    /\ UNCHANGED exportVars
    /\ UNCHANGED drawVars

\* DragUpdate without the minimum-duration clamp of a move
DragUpdateNoMoveClamp(sub, mode, targetId, originalStart, originalEnd, dt) ==
    IF sub.id # targetId THEN sub
    ELSE LET newStart == CASE mode = "move-sub" -> Max(0, originalStart + dt)
                           [] mode = "resize-left" ->
                                Min(Max(0, originalStart + dt), originalEnd - MinResizeDuration)
                           [] OTHER -> sub.start
             newEnd == CASE mode = "move-sub" -> originalEnd + dt
                         [] mode = "resize-right" ->
                              Max(originalStart + MinResizeDuration, originalEnd + dt)
                         [] OTHER -> sub.end
         IN [sub EXCEPT !.start = newStart, !.end = newEnd]

\* DragUpdate moving only the start of a moved caption
DragUpdateMoveStartOnly(sub, mode, targetId, originalStart, originalEnd, dt) ==
    IF sub.id # targetId THEN sub
    ELSE LET newStart == CASE mode = "move-sub" -> Max(0, originalStart + dt)
                           [] mode = "resize-left" ->
                                Min(Max(0, originalStart + dt), originalEnd - MinResizeDuration)
                           [] OTHER -> sub.start
             newEnd == CASE mode = "resize-right" ->
                              Max(originalStart + MinResizeDuration, originalEnd + dt)
                         [] OTHER -> sub.end
         IN [sub EXCEPT !.start = newStart, !.end = newEnd]

\* DragUpdate without the floor of a resize-right
DragUpdateNoResizeFloor(sub, mode, targetId, originalStart, originalEnd, dt) ==
    IF sub.id # targetId THEN sub
    ELSE LET newStart == CASE mode = "move-sub" -> Max(0, originalStart + dt)
                           [] mode = "resize-left" ->
                                Min(Max(0, originalStart + dt), originalEnd - MinResizeDuration)
                           [] OTHER -> sub.start
             newEnd == CASE mode = "move-sub" -> Max(newStart + MinMoveDuration, originalEnd + dt)
                         [] mode = "resize-right" -> originalEnd + dt
                         [] OTHER -> sub.end
         IN [sub EXCEPT !.start = newStart, !.end = newEnd]

\* DragUpdate with the 0.1 s floor of a move applied to a resize-left
DragUpdateResizeLeftMoveFloor(sub, mode, targetId, originalStart, originalEnd, dt) ==
    IF sub.id # targetId THEN sub
    ELSE LET newStart == CASE mode = "move-sub" -> Max(0, originalStart + dt)
                           [] mode = "resize-left" ->
                                Min(Max(0, originalStart + dt), originalEnd - MinMoveDuration)
                           [] OTHER -> sub.start
             newEnd == CASE mode = "move-sub" -> Max(newStart + MinMoveDuration, originalEnd + dt)
                         [] mode = "resize-right" ->
                              Max(originalStart + MinResizeDuration, originalEnd + dt)
                         [] OTHER -> sub.end
         IN [sub EXCEPT !.start = newStart, !.end = newEnd]

\* DragUpdate applying dt to the caption as the last pointer-move left it
DragUpdateIncremental(sub, mode, targetId, originalStart, originalEnd, dt) ==
    IF sub.id # targetId THEN sub
    ELSE LET newStart == CASE mode = "move-sub" -> Max(0, sub.start + dt)
                           [] mode = "resize-left" ->
                                Min(Max(0, sub.start + dt), sub.end - MinResizeDuration)
                           [] OTHER -> sub.start
             newEnd == CASE mode = "move-sub" -> Max(newStart + MinMoveDuration, sub.end + dt)
                         [] mode = "resize-right" ->
                              Max(sub.start + MinResizeDuration, sub.end + dt)
                         [] OTHER -> sub.end
         IN [sub EXCEPT !.start = newStart, !.end = newEnd]

\* DragUpdate without the test for the target's id
DragUpdateEveryCaption(sub, mode, targetId, originalStart, originalEnd, dt) ==
    LET newStart == CASE mode = "move-sub" -> Max(0, originalStart + dt)
                      [] mode = "resize-left" ->
                           Min(Max(0, originalStart + dt), originalEnd - MinResizeDuration)
                      [] OTHER -> sub.start
        newEnd == CASE mode = "move-sub" -> Max(newStart + MinMoveDuration, originalEnd + dt)
                    [] mode = "resize-right" ->
                         Max(originalStart + MinResizeDuration, originalEnd + dt)
                    [] OTHER -> sub.end
    IN [sub EXCEPT !.start = newStart, !.end = newEnd]

\* the caption the map callback of handlePointerMove returns for sub
DragUpdate(sub, mode, targetId, originalStart, originalEnd, dt) ==
    IF sub.id # targetId THEN sub
    ELSE LET newStart == CASE mode = "move-sub" -> Max(0, originalStart + dt)
                           [] mode = "resize-left" ->
                                Min(Max(0, originalStart + dt), originalEnd - MinResizeDuration)
                           [] OTHER -> sub.start
             newEnd == CASE mode = "move-sub" -> Max(newStart + MinMoveDuration, originalEnd + dt)
                         [] mode = "resize-right" ->
                              Max(originalStart + MinResizeDuration, originalEnd + dt)
                         [] OTHER -> sub.end
         IN [sub EXCEPT !.start = newStart, !.end = newEnd]

\* video.currentTime = t: the media element seeks no further than the end
SeekTarget(t) == Min(Duration, Max(0, t))

\* a scrub that moves the playhead with the pointer instead of against it
ScrubTimeForward(startTime, dt) == Max(0, startTime + dt)

\* Math.max(0, dragStartTime - dt)
ScrubTime(startTime, dt) == Max(0, startTime - dt)

\* handlePointerMove
PointerMove(x) ==
    /\ isDragging
    /\ DtExact(x - dragStartX, zoomLevel)
    /\ LET dt == DtOf(x - dragStartX, zoomLevel)
       IN IF dragMode = "scrub"
          THEN /\ currentTime' = SeekTarget(ScrubTime(dragStartTime, dt))
               /\ UNCHANGED subtitles
          ELSE IF dragTargetId # NULL
          THEN /\ subtitles' = [i \in 1 .. Len(subtitles) |->
                                  DragUpdate(subtitles[i], dragMode, dragTargetId,
                                             dragOriginalStart, dragOriginalEnd, dt)]
               /\ UNCHANGED currentTime
          ELSE UNCHANGED <<subtitles, currentTime>>
    /\ UNCHANGED <<selectedSubId, zoomLevel, isDragging, dragMode, dragTargetId, dragStartX,
                   dragStartTime, dragOriginalStart, dragOriginalEnd, isPlaying, paused,
                   nextId, pointerDowns, zoomOps>>
    /\ UNCHANGED exportVars
    /\ UNCHANGED drawVars

\* a pointer-up that resumes playback after every scrub
PointerUpScrubResumes ==
    /\ isDragging
    /\ IF dragMode = "scrub"
       THEN /\ paused' = FALSE
            /\ currentTime' = IF paused /\ currentTime = Duration THEN 0 ELSE currentTime
       ELSE UNCHANGED <<paused, currentTime>>
    /\ isDragging' = FALSE
    /\ dragMode' = "none"
    /\ dragTargetId' = NULL
    /\ UNCHANGED <<subtitles, selectedSubId, zoomLevel, dragStartX, dragStartTime,
                   dragOriginalStart, dragOriginalEnd, isPlaying, nextId,
                   pointerDowns, zoomOps>>
    /\ UNCHANGED exportVars
    /\ UNCHANGED drawVars

\* a pointer-up that ends the drag but forgets to clear the target
PointerUpKeepsTarget ==
    /\ isDragging
    /\ IF dragMode = "scrub" /\ isPlaying
       THEN /\ paused' = FALSE
            /\ currentTime' = IF paused /\ currentTime = Duration THEN 0 ELSE currentTime
       ELSE UNCHANGED <<paused, currentTime>>
    /\ isDragging' = FALSE
    /\ dragMode' = "none"
    /\ UNCHANGED <<subtitles, selectedSubId, zoomLevel, dragTargetId, dragStartX, dragStartTime,
                   dragOriginalStart, dragOriginalEnd, isPlaying, nextId,
                   pointerDowns, zoomOps>>
    /\ UNCHANGED exportVars
    /\ UNCHANGED drawVars

\* handlePointerUp (pointer-up and pointer-cancel); play() at the end of the
\* resource starts over
PointerUp ==
    /\ isDragging
    /\ IF dragMode = "scrub" /\ isPlaying
       THEN /\ paused' = FALSE
            /\ currentTime' = IF paused /\ currentTime = Duration THEN 0 ELSE currentTime
       ELSE UNCHANGED <<paused, currentTime>>
    /\ isDragging' = FALSE
    /\ dragMode' = "none"
    /\ dragTargetId' = NULL
    /\ UNCHANGED <<subtitles, selectedSubId, zoomLevel, dragStartX, dragStartTime,
                   dragOriginalStart, dragOriginalEnd, isPlaying, nextId,
                   pointerDowns, zoomOps>>
    /\ UNCHANGED exportVars
    /\ UNCHANGED drawVars

\* addSubtitle
AddSubtitle ==
    /\ ~isExportingVideo
    /\ nextId <= MaxSubs
    /\ LET start == currentTime
           newSub == [id |-> nextId, start |-> start, end |-> start + DefaultDuration,
                      text |-> "New Subtitle"]
       IN /\ subtitles' = Append(subtitles, newSub)
          /\ selectedSubId' = newSub.id
    /\ nextId' = nextId + 1
    /\ UNCHANGED <<zoomLevel, isDragging, dragMode, dragTargetId, dragStartX, dragStartTime,
                   dragOriginalStart, dragOriginalEnd, isPlaying, currentTime, paused,
                   pointerDowns, zoomOps>>
    /\ UNCHANGED exportVars
    /\ UNCHANGED drawVars

\* a zoom-in without the upper clamp
ZoomInUnclamped(z) == Rat(z.n * 3, z.d * 2)

\* z => Math.min(z * 1.5, 500)
ZoomInValue(z) ==
    LET r == Rat(z.n * 3, z.d * 2)
    IN IF RatLeq(r, Rat(MaxZoom, 1)) THEN r ELSE Rat(MaxZoom, 1)

\* z => Math.max(z / 1.5, 10)
ZoomOutValue(z) ==
    LET r == Rat(z.n * 2, z.d * 3)
    IN IF RatLeq(Rat(MinZoom, 1), r) THEN r ELSE Rat(MinZoom, 1)

ZoomIn ==
    /\ zoomLevel' = ZoomInValue(zoomLevel)
    /\ zoomOps' = zoomOps + 1
    /\ UNCHANGED <<subtitles, selectedSubId, isDragging, dragMode, dragTargetId, dragStartX,
                   dragStartTime, dragOriginalStart, dragOriginalEnd, isPlaying, currentTime,
                   paused, nextId, pointerDowns>>
    /\ UNCHANGED exportVars
    /\ UNCHANGED drawVars

ZoomOut ==
    /\ zoomLevel' = ZoomOutValue(zoomLevel)
    /\ zoomOps' = zoomOps + 1
    /\ UNCHANGED <<subtitles, selectedSubId, isDragging, dragMode, dragTargetId, dragStartX,
                   dragStartTime, dragOriginalStart, dragOriginalEnd, isPlaying, currentTime,
                   paused, nextId, pointerDowns>>
    /\ UNCHANGED exportVars
    /\ UNCHANGED drawVars

\* togglePlay (the button is disabled while the export dialog is open); play() at
\* the end of the resource starts over
TogglePlay ==
    /\ ~isExportingVideo
    /\ paused' = ~paused
    /\ currentTime' = IF paused /\ currentTime = Duration THEN 0 ELSE currentTime
    /\ UNCHANGED editVars
    /\ UNCHANGED exportVars
    /\ UNCHANGED drawVars

\* the media element plays one step once playback has started; at the end of the
\* resource it pauses itself
PlaybackAdvance ==
    /\ ~paused
    /\ pendingPlay = {}
    /\ currentTime < Duration
    /\ currentTime' = Min(Duration, currentTime + PlayStep)
    /\ paused' = (currentTime' = Duration)
    /\ UNCHANGED editVars
    /\ UNCHANGED exportVars
    /\ UNCHANGED drawVars

\* audioBuffer = null: no audio decoded
NoAudio == [sampleRate |-> 0, channelData |-> <<>>]

\* no waveform bucket drawn
NoBars == [i \in {} |-> NULL]

\* no mapper call under observation
NoTrip == [kind |-> "none", input |-> FZero, centerTime |-> FZero, zoom |-> FZero,
           output |-> FZero, done |-> FALSE]

\* no caption file downloaded; content is a string, one character per element
NoSrt == [saved |-> FALSE, content |-> <<>>]

\* the overlay element before updateOverlay has run
NoOverlay == [display |-> "none", innerText |-> "", time |-> 0, updated |-> FALSE]

InitDraw ==
    /\ audioBuffer = NoAudio
    /\ bars = NoBars
    /\ prevBars = NoBars
    /\ mapper = NoTrip
    /\ srtDownload = NoSrt
    /\ overlay = NoOverlay

(* ------------------------------ waveform ------------------------------ *)
(* The waveform part of draw, in exact arithmetic: times in milliseconds,  *)
(* zoom the rational n/d, the sample rate a whole number of samples per    *)
(* millisecond.  Sample values are whole multiples of 1/SampleScale.       *)

\* floor(a / b) and ceil(a / b), for b > 0
FloorDiv(a, b) == a \div b
CeilDiv(a, b) == 0 - ((0 - a) \div b)

SetMin(S) == CHOOSE v \in S : \A u \in S : v <= u
SetMax(S) == CHOOSE v \in S : \A u \in S : v >= u

\* the sample value 1.0
SampleScale == 3

\* Math.ceil(audioBuffer.sampleRate / zoom)
BucketStep(buffer, zoom) == CeilDiv(buffer.sampleRate * zoom.d, zoom.n)

\* currentTime * sampleRate: the sample under the playhead
CenterSample(buffer, centerTime) == centerTime * (buffer.sampleRate \div 1000)

\* Math.floor((startTimeAtLeft * sampleRate) / step)
StartBucketIndex(buffer, centerTime, width, zoom) ==
    FloorDiv(2 * zoom.n * CenterSample(buffer, centerTime) - width * zoom.d * buffer.sampleRate,
             2 * zoom.n * BucketStep(buffer, zoom))

\* Math.ceil((endTimeAtRight * sampleRate) / step)
EndBucketIndex(buffer, centerTime, width, zoom) ==
    CeilDiv(2 * zoom.n * CenterSample(buffer, centerTime) + width * zoom.d * buffer.sampleRate,
            2 * zoom.n * BucketStep(buffer, zoom))

\* a bucket grid anchored at the sample under the playhead instead of sample 0
ViewAnchoredStartSample(i, step) ==
    i * step + (CenterSample(audioBuffer, currentTime) % step)

\* startSample of the bucket with absolute index i
BucketStartSample(i, step) == i * step

\* timeToX(sample / sampleRate, ...) is the fraction SampleXNum / SampleXDen
SampleXNum(sample, buffer, centerTime, width, zoom) ==
    width * buffer.sampleRate * zoom.d + 2 * zoom.n * (sample - CenterSample(buffer, centerTime))
SampleXDen(buffer, zoom) == 2 * buffer.sampleRate * zoom.d

\* the indices the peak loop reads: j = safeStart; j < safeEnd; j += stride
ScannedSamples(safeStart, safeEnd, stride) ==
    {j \in safeStart .. (safeEnd - 1) : (j - safeStart) % stride = 0}

\* a width that counts the column of the right edge too
DrawWidthInclusive(ceilXEnd, drawX) == Max(1, ceilXEnd - drawX + 1)

\* Math.max(1, Math.ceil(xEnd) - drawX)
DrawWidth(ceilXEnd, drawX) == Max(1, ceilXEnd - drawX)

\* what one iteration of the bucket loop computes for the bucket with index i
Bucket(i, buffer, centerTime, width, zoom) ==
    LET step == BucketStep(buffer, zoom)
        startSample == BucketStartSample(i, step)
        endSample == startSample + step
        safeStart == Max(0, startSample)
        safeEnd == Min(Len(buffer.channelData), endSample)
        drawX == FloorDiv(SampleXNum(startSample, buffer, centerTime, width, zoom),
                          SampleXDen(buffer, zoom))
        drawW == DrawWidth(CeilDiv(SampleXNum(endSample, buffer, centerTime, width, zoom),
                                   SampleXDen(buffer, zoom)), drawX)
        stride == Max(1, (safeEnd - safeStart) \div 40)
        vals == {buffer.channelData[j + 1] : j \in ScannedSamples(safeStart, safeEnd, stride)}
    IN [startSample |-> startSample, endSample |-> endSample,
        safeStart |-> safeStart, safeEnd |-> safeEnd, stride |-> stride,
        min |-> SetMin(vals \cup {SampleScale}),
        max |-> SetMax(vals \cup {0 - SampleScale}),
        hasData |-> vals # {},
        drawX |-> drawX, drawW |-> drawW]

\* the buckets the loop draws a bar for: in the overscanned index range, not
\* skipped, not behind the break, with data
DrawnBuckets(buffer, centerTime, width, zoom) ==
    {i \in (StartBucketIndex(buffer, centerTime, width, zoom) - 1) ..
           (EndBucketIndex(buffer, centerTime, width, zoom) + 1) :
        LET b == Bucket(i, buffer, centerTime, width, zoom)
        IN /\ ~(b.endSample < 0 \/ b.startSample >= Len(buffer.channelData))
           /\ ~(b.drawX > width)
           /\ ~(b.drawX + b.drawW < 0)
           /\ b.hasData /\ b.max >= b.min}

\* draw, called back on every animation frame: the waveform bars
Draw ==
    /\ audioBuffer # NoAudio
    /\ bars' = [i \in DrawnBuckets(audioBuffer, currentTime, CanvasWidth, zoomLevel) |->
                   Bucket(i, audioBuffer, currentTime, CanvasWidth, zoomLevel)]
    /\ prevBars' = bars
    /\ UNCHANGED <<timelineVars, exportVars, audioBuffer, mapper, srtDownload, overlay>>

\* video.currentTime becomes t, by playback or by a seek
VideoTimeChange(t) ==
    /\ t # currentTime
    /\ currentTime' = SeekTarget(t)
    /\ UNCHANGED <<editVars, paused>>
    /\ UNCHANGED <<exportVars, drawVars>>

(* ------------------------------- export ------------------------------- *)

\* the codec preference list mimeTypes, by position
mimeTypes == <<"video/mp4;codecs=avc1.4d002a", "video/mp4;codecs=avc1.42E01E", "video/mp4",
               "video/webm;codecs=h264", "video/webm;codecs=vp9", "video/webm">>

\* what MediaRecorder.isTypeSupported may answer: the sets of supported positions
ProbeOutcomes == {{}, {1, 2, 3, 4, 5, 6}, {3, 5, 6}}

\* renderCanvas before any frame is composited
NoFrame == [session |-> 0, time |-> 0, text |-> ""]

\* video.ended
Ended == currentTime = Duration

InitExport ==
    /\ volume = 100
    /\ isExportingVideo = FALSE
    /\ renderStatus = "idle"
    /\ exportProgress = Rat(0, 1)
    /\ mutePreview = TRUE
    /\ previousVolumeRef = 100
    /\ supportedTypes \in ProbeOutcomes
    /\ recorders = <<>>
    /\ mediaRecorderRef = 0
    /\ pendingPlay = {}
    /\ frameCallbacks = {}
    /\ renderLoopIdRef = 0
    /\ canvas = NoFrame
    /\ downloads = {}
    /\ alerts = 0
    /\ starts = 0

\* handleExportVideo (Burn Video button)
HandleExportVideo ==
    /\ ~isExportingVideo
    /\ Len(subtitles) # 0
    /\ paused' = TRUE
    /\ previousVolumeRef' = volume
    /\ isExportingVideo' = TRUE
    /\ renderStatus' = "idle"
    /\ exportProgress' = Rat(0, 1)
    /\ UNCHANGED <<editVars, currentTime>>
    /\ UNCHANGED <<volume, mutePreview, supportedTypes, recorders, mediaRecorderRef,
                   pendingPlay, frameCallbacks, renderLoopIdRef, canvas, downloads, alerts, starts>>
    /\ UNCHANGED drawVars

\* the mute toggle of the export dialog
ToggleMutePreview ==
    /\ isExportingVideo
    /\ renderStatus = "idle"
    /\ mutePreview' = ~mutePreview
    /\ UNCHANGED timelineVars
    /\ UNCHANGED <<volume, isExportingVideo, renderStatus, exportProgress, previousVolumeRef,
                   supportedTypes, recorders, mediaRecorderRef, pendingPlay, frameCallbacks,
                   renderLoopIdRef, canvas, downloads, alerts, starts>>
    /\ UNCHANGED drawVars

\* a format selection that keeps overwriting its choice (no break)
SelectLastMimeType(supported) ==
    LET ok == {i \in 1 .. Len(mimeTypes) : i \in supported}
    IN IF ok = {} THEN 0 ELSE CHOOSE i \in ok : \A j \in ok : j <= i

\* the format selection loop of startRendering: the position selected, 0 for ''
SelectMimeType(supported) ==
    LET ok == {i \in 1 .. Len(mimeTypes) : i \in supported}
    IN IF ok = {} THEN 0 ELSE CHOOSE i \in ok : \A j \in ok : i <= j

\* recorder.stop(): nothing on an inactive recorder; the stop event is queued, and
\* stoppedBy notes the caller (renderFrame at the end: "ended"; closeExport while
\* rendering: "cancel"; closeExport otherwise: "close")
StopRecorder(r, by) ==
    IF r.state = "inactive" THEN r
    ELSE [r EXCEPT !.state = "inactive", !.stopQueued = TRUE, !.stoppedBy = by]

\* startRendering (Start Render button, shown while the dialog's status is idle)
StartRendering ==
    /\ isExportingVideo
    /\ renderStatus = "idle"
    /\ starts < MaxStarts
    /\ starts' = starts + 1
    /\ currentTime' = 0
    /\ volume' = IF mutePreview THEN 0 ELSE previousVolumeRef
    /\ canvas' = NoFrame
    /\ LET selectedMimeType == SelectMimeType(supportedTypes)
       IN IF selectedMimeType = 0
          THEN /\ alerts' = alerts + 1
               /\ renderStatus' = "idle"
               /\ UNCHANGED <<recorders, mediaRecorderRef, pendingPlay, paused>>
          ELSE /\ renderStatus' = "rendering"
               /\ recorders' = Append(recorders, [state |-> "recording",
                                                   mimeType |-> selectedMimeType,
                                                   stopQueued |-> FALSE,
                                                   stoppedBy |-> "none"])
               /\ mediaRecorderRef' = Len(recorders) + 1
               /\ paused' = FALSE
               /\ pendingPlay' = pendingPlay \cup {Len(recorders) + 1}
               /\ UNCHANGED alerts
    /\ UNCHANGED editVars
    /\ UNCHANGED <<isExportingVideo, exportProgress, mutePreview, previousVolumeRef,
                   supportedTypes, frameCallbacks, renderLoopIdRef, downloads>>
    /\ UNCHANGED drawVars

\* video.play() fulfilled: the then-callback of every pending promise registers renderFrame
PlayResolved ==
    /\ pendingPlay # {}
    /\ frameCallbacks' = frameCallbacks \cup pendingPlay
    /\ renderLoopIdRef' = CHOOSE s \in pendingPlay : \A t \in pendingPlay : t <= s
    /\ pendingPlay' = {}
    /\ UNCHANGED timelineVars
    /\ UNCHANGED <<volume, isExportingVideo, renderStatus, exportProgress, mutePreview,
                   previousVolumeRef, supportedTypes, recorders, mediaRecorderRef, canvas,
                   downloads, alerts, starts>>
    /\ UNCHANGED drawVars

\* video.play() rejected: the catch-callback
PlayRejected ==
    /\ pendingPlay # {}
    /\ pendingPlay' = {}
    /\ paused' = TRUE
    /\ renderStatus' = "idle"
    /\ UNCHANGED <<editVars, currentTime>>
    /\ UNCHANGED <<volume, isExportingVideo, exportProgress, mutePreview, previousVolumeRef,
                   supportedTypes, recorders, mediaRecorderRef, frameCallbacks,
                   renderLoopIdRef, canvas, downloads, alerts, starts>>
    /\ UNCHANGED drawVars

\* a caption lookup that keeps the last caption containing t
LastActiveSubText(subs, t) ==
    LET act == {i \in 1 .. Len(subs) : t >= subs[i].start /\ t <= subs[i].end}
    IN IF act = {} THEN "" ELSE subs[CHOOSE i \in act : \A j \in act : j <= i].text

\* subtitlesRef.current.find(s => t >= s.start && t <= s.end), "" when undefined
ActiveSubText(subs, t) ==
    LET act == {i \in 1 .. Len(subs) : t >= subs[i].start /\ t <= subs[i].end}
    IN IF act = {} THEN "" ELSE subs[CHOOSE i \in act : \A j \in act : i <= j].text

\* a progress value left as the fraction of the video played
ExportProgressFraction(time) == Rat(time, Duration)

\* (video.currentTime / video.duration) * 100
ExportProgressAt(time) == Rat(time * 100, Duration)

\* renderFrame of session s, called back by the frame clock
RenderFrame(s) ==
    /\ s \in frameCallbacks
    /\ IF Ended
       THEN /\ recorders' = [recorders EXCEPT ![s] = StopRecorder(@, "ended")]
            /\ frameCallbacks' = frameCallbacks \ {s}
            /\ UNCHANGED <<canvas, exportProgress, renderLoopIdRef>>
       ELSE /\ canvas' = [session |-> s, time |-> currentTime,
                          text |-> ActiveSubText(subtitles, currentTime)]
            /\ exportProgress' = ExportProgressAt(currentTime)
            /\ renderLoopIdRef' = s
            /\ UNCHANGED <<recorders, frameCallbacks>>
    /\ UNCHANGED timelineVars
    /\ UNCHANGED <<volume, isExportingVideo, renderStatus, mutePreview, previousVolumeRef,
                   supportedTypes, mediaRecorderRef, pendingPlay, downloads, alerts, starts>>
    /\ UNCHANGED drawVars

\* recorder.onstop of session s
RecorderOnStop(s) ==
    /\ s \in 1 .. Len(recorders)
    /\ recorders[s].stopQueued
    /\ recorders' = [recorders EXCEPT ![s].stopQueued = FALSE]
    /\ downloads' = downloads \cup {s}
    /\ paused' = TRUE
    /\ volume' = previousVolumeRef
    /\ renderStatus' = "completed"
    /\ UNCHANGED <<editVars, currentTime>>
    /\ UNCHANGED <<isExportingVideo, exportProgress, mutePreview, previousVolumeRef,
                   supportedTypes, mediaRecorderRef, pendingPlay, frameCallbacks,
                   renderLoopIdRef, canvas, alerts, starts>>
    /\ UNCHANGED drawVars

\* a closeExport that stops the encoder and the loop but leaves the volume alone
CloseExportKeepsVolume ==
    /\ isExportingVideo
    /\ recorders' = IF mediaRecorderRef # 0
                    THEN [recorders EXCEPT ![mediaRecorderRef] =
                              StopRecorder(@, IF renderStatus = "rendering" THEN "cancel"
                                              ELSE "close")]
                    ELSE recorders
    /\ paused' = TRUE
    /\ frameCallbacks' = frameCallbacks \ {renderLoopIdRef}
    /\ isExportingVideo' = FALSE
    /\ renderStatus' = "idle"
    /\ UNCHANGED <<editVars, currentTime>>
    /\ UNCHANGED <<volume, exportProgress, mutePreview, previousVolumeRef, supportedTypes,
                   mediaRecorderRef, pendingPlay, renderLoopIdRef, canvas, downloads, alerts, starts>>
    /\ UNCHANGED drawVars

\* closeExport (Cancel, Stop & Cancel and Close buttons of the dialog)
CloseExport ==
    /\ isExportingVideo
    /\ recorders' = IF mediaRecorderRef # 0
                    THEN [recorders EXCEPT ![mediaRecorderRef] =
                              StopRecorder(@, IF renderStatus = "rendering" THEN "cancel"
                                              ELSE "close")]
                    ELSE recorders
    /\ paused' = TRUE
    /\ volume' = previousVolumeRef
    /\ frameCallbacks' = frameCallbacks \ {renderLoopIdRef}
    /\ isExportingVideo' = FALSE
    /\ renderStatus' = "idle"
    /\ UNCHANGED <<editVars, currentTime>>
    /\ UNCHANGED <<exportProgress, mutePreview, previousVolumeRef, supportedTypes,
                   mediaRecorderRef, pendingPlay, renderLoopIdRef, canvas, downloads, alerts, starts>>
    /\ UNCHANGED drawVars

(* --------------------------- preview overlay -------------------------- *)

\* a lookup that takes a caption's end as exclusive
CurrentSubEndExclusive(subs, time) ==
    LET act == {i \in 1 .. Len(subs) : time >= subs[i].start /\ time < subs[i].end}
    IN IF act = {} THEN 0 ELSE CHOOSE i \in act : \A j \in act : i <= j

\* subtitlesRef.current.find(s => time >= s.start && time <= s.end): the position
\* of the caption found, 0 for undefined
CurrentSub(subs, time) ==
    LET act == {i \in 1 .. Len(subs) : time >= subs[i].start /\ time <= subs[i].end}
    IN IF act = {} THEN 0 ELSE CHOOSE i \in act : \A j \in act : i <= j

\* updateOverlay, called back on every animation frame
UpdateOverlay ==
    /\ LET time == currentTime
           currentSub == CurrentSub(subtitles, time)
       IN overlay' = IF currentSub # 0
                     THEN [display |-> "block", innerText |-> subtitles[currentSub].text,
                           time |-> time, updated |-> TRUE]
                     ELSE [overlay EXCEPT !.display = "none", !.time = time, !.updated = TRUE]
    /\ UNCHANGED <<timelineVars, exportVars, audioBuffer, bars, prevBars, mapper, srtDownload>>

(* ------------------------------ SRT file ------------------------------ *)
(* A string is the sequence of its characters; a caption's time is the     *)
(* double nearest to its whole number of milliseconds.                      *)

DigitChars == <<"0", "1", "2", "3", "4", "5", "6", "7", "8", "9">>

\* String(n) for a natural number n
RECURSIVE Decimal(_)
Decimal(n) ==
    IF n < 10 THEN <<DigitChars[n + 1]>>
    ELSE Decimal(n \div 10) \o <<DigitChars[(n % 10) + 1]>>

\* the zero-padded fields of toISOString
RECURSIVE PadStart(_, _)
PadStart(chars, width) ==
    IF Len(chars) >= width THEN chars ELSE PadStart(<<"0">> \o chars, width)

MsPerDay == 86400000

\* the time value of new Date(0) after setMilliseconds(seconds * 1000)
DateMilliseconds(time) == FTrunc(FMul(FDiv(FInt(time), FInt(1000)), FInt(1000)))

\* toISOString().substring(11, 23).replace('.', ','): the UTC time of day of the
\* date whose time value is ms
FormatTimeOfMs(ms) ==
    LET tod == ms % MsPerDay
    IN PadStart(Decimal(tod \div 3600000), 2) \o <<":">>
       \o PadStart(Decimal((tod \div 60000) % 60), 2) \o <<":">>
       \o PadStart(Decimal((tod \div 1000) % 60), 2) \o <<",">>
       \o PadStart(Decimal(tod % 1000), 3)

\* formatTime
formatTime(time) == FormatTimeOfMs(DateMilliseconds(time))

\* one element of the map: `${index + 1}\n${start} --> ${end}\n${text}\n`
SrtEntry(sub, index) ==
    Decimal(index + 1) \o <<"\n">>
    \o formatTime(sub.start) \o <<" ", "-", "-", ">", " ">> \o formatTime(sub.end) \o <<"\n">>
    \o sub.text \o <<"\n">>

\* entries.join('\n')
RECURSIVE Join(_)
Join(entries) ==
    IF entries = <<>> THEN <<>>
    ELSE IF Len(entries) = 1 THEN entries[1]
    ELSE entries[1] \o <<"\n">> \o Join(Tail(entries))

\* a generateSRT that numbers and joins the captions in the order it finds them
generateSRTUnsorted(subs) ==
    Join([k \in 1 .. Len(subs) |-> SrtEntry(subs[k], k - 1)])

\* generateSRT
generateSRT(subs) ==
    LET sorted == SortByStart(subs)
    IN Join([k \in 1 .. Len(sorted) |-> SrtEntry(sorted[k], k - 1)])

\* exportSRT (Export SRT button): generateSRT sorts the array it is given, the
\* collection itself
ExportSRT ==
    /\ Len(subtitles) # 0
    /\ ~isExportingVideo
    /\ srtDownload' = [saved |-> TRUE, content |-> generateSRT(subtitles)]
    /\ subtitles' = SortByStart(subtitles)
    /\ UNCHANGED <<selectedSubId, zoomLevel, isDragging, dragMode, dragTargetId,
                   dragStartX, dragStartTime, dragOriginalStart, dragOriginalEnd, isPlaying,
                   currentTime, paused, nextId, pointerDowns, zoomOps>>
    /\ UNCHANGED <<exportVars, audioBuffer, bars, prevBars, mapper, overlay>>

(* --------------------------- specifications --------------------------- *)

\* editing: captions are added, dragged and zoomed; no export
Init ==
    /\ InitTimeline
    /\ InitExport
    /\ InitDraw
    /\ supportedTypes = {1, 2, 3, 4, 5, 6}

Next ==
    \/ \E x \in PointerXs : pointerDowns < MaxPointerDowns /\ PointerDown(x)
    \/ \E x \in PointerXs : PointerMove(x)
    \/ PointerUp
    \/ AddSubtitle
    \/ zoomOps < MaxZoomOps /\ ZoomIn
    \/ zoomOps < MaxZoomOps /\ ZoomOut

Spec == Init /\ [][Next]_vars

\* the caption collection of the export specifications: one caption, added with
\* the playhead one playback step into the video
ExportSubtitles ==
    <<[id |-> 1, start |-> PlayStep, end |-> PlayStep + DefaultDuration,
       text |-> "New Subtitle"]>>

\* exporting: one caption exists, the playhead is back at 0
InitExportSpec ==
    /\ subtitles = ExportSubtitles
    /\ selectedSubId = 1
    /\ zoomLevel = Rat(InitialZoom, 1)
    /\ isDragging = FALSE
    /\ dragMode = "none"
    /\ dragTargetId = NULL
    /\ dragStartX = 0
    /\ dragStartTime = 0
    /\ dragOriginalStart = 0
    /\ dragOriginalEnd = 0
    /\ isPlaying = FALSE
    /\ currentTime = 0
    /\ paused = TRUE
    /\ nextId = 2
    /\ pointerDowns = 0
    /\ zoomOps = 0
    /\ InitExport
    /\ InitDraw

\* the export dialog, the encoder, the play() promise and the frame loop
NextExport ==
    \/ HandleExportVideo
    \/ ToggleMutePreview
    \/ StartRendering
    \/ PlayResolved
    \/ PlayRejected
    \/ PlaybackAdvance
    \/ \E s \in 1 .. Len(recorders) : RenderFrame(s)
    \/ \E s \in 1 .. Len(recorders) : RecorderOnStop(s)
    \/ CloseExport

SpecExport == InitExportSpec /\ [][NextExport]_vars

\* pointer positions used during an export: the playhead and the right edge
ExportPointerXs == {CanvasWidth \div 2, CanvasWidth}

\* the timeline canvas stays live beside the export dialog: pointer events come in
\* while a session renders
NextExportTimeline ==
    \/ NextExport
    \/ \E x \in ExportPointerXs :
           renderStatus = "rendering" /\ pointerDowns < MaxExportPointerDowns /\ PointerDown(x)
    \/ \E x \in ExportPointerXs : PointerMove(x)
    \/ PointerUp

SpecExportTimeline == InitExportSpec /\ [][NextExportTimeline]_vars

\* pointer positions of a scrub during an export: the left edge of the timeline
\* and the playhead
ProgressPointerXs == {0, CanvasWidth \div 2}

\* one rendering session with the timeline canvas live beside the dialog
NextProgress ==
    \/ HandleExportVideo
    \/ starts = 0 /\ StartRendering
    \/ PlayResolved
    \/ PlaybackAdvance
    \/ \E s \in 1 .. Len(recorders) : RenderFrame(s)
    \/ \E s \in 1 .. Len(recorders) : RecorderOnStop(s)
    \/ CloseExport
    \/ \E x \in ProgressPointerXs :
           renderStatus = "rendering" /\ pointerDowns < MaxExportPointerDowns /\ PointerDown(x)
    \/ \E x \in ProgressPointerXs : PointerMove(x)
    \/ PointerUp

SpecProgress == InitExportSpec /\ [][NextProgress]_vars

\* the frame clock, the media element and the event loop keep running, and a pointer
\* that is down is released
FairExport ==
    /\ WF_vars(PlaybackAdvance)
    /\ WF_vars(\E s \in 1 .. Len(recorders) : RenderFrame(s))
    /\ WF_vars(\E s \in 1 .. Len(recorders) : RecorderOnStop(s))
    /\ WF_vars(PlayResolved \/ PlayRejected)
    /\ WF_vars(PointerUp)

SpecExportFair == SpecExportTimeline /\ FairExport

\* captions the compositor is checked on: 0.1 s long (left by a move against time
\* 0) or one playback step long (left by a resize), with the text typed into them
CompositorCaptions(id) ==
    {[id |-> id, start |-> k * PlayStep, end |-> k * PlayStep + d, text |-> ToString(id)] :
        k \in 0 .. CompositorStartSteps, d \in {MinMoveDuration, PlayStep}}

RECURSIVE CompositorCollections(_)
CompositorCollections(n) ==
    IF n = 0 THEN {<<>>}
    ELSE {Append(c, s) : c \in CompositorCollections(n - 1), s \in CompositorCaptions(n)}

\* one export of a caption collection, overlapping captions included
InitCompositor ==
    /\ subtitles \in UNION {CompositorCollections(n) : n \in 1 .. MaxCompositorSubs}
    /\ selectedSubId = 1
    /\ zoomLevel = Rat(InitialZoom, 1)
    /\ isDragging = FALSE
    /\ dragMode = "none"
    /\ dragTargetId = NULL
    /\ dragStartX = 0
    /\ dragStartTime = 0
    /\ dragOriginalStart = 0
    /\ dragOriginalEnd = 0
    /\ isPlaying = FALSE
    /\ currentTime = 0
    /\ paused = TRUE
    /\ nextId = Len(subtitles) + 1
    /\ pointerDowns = 0
    /\ zoomOps = 0
    /\ InitExport
    /\ InitDraw
    /\ supportedTypes = {1, 2, 3, 4, 5, 6}

\* one rendering session: frames are composited at whatever playback times the
\* frame clock samples
NextCompositor ==
    \/ HandleExportVideo
    \/ starts = 0 /\ StartRendering
    \/ PlayResolved
    \/ PlaybackAdvance
    \/ \E s \in 1 .. Len(recorders) : RenderFrame(s)
    \/ \E s \in 1 .. Len(recorders) : RecorderOnStop(s)
    \/ CloseExport
    \/ UpdateOverlay

SpecCompositor == InitCompositor /\ [][NextCompositor]_vars

\* captions at the start of a drag session: added (2 s long) or left 0.1 s long by
\* a move against time 0, starting at 0 or one playback step in
SessionCaptions(id) ==
    {[id |-> id, start |-> k * PlayStep, end |-> k * PlayStep + d, text |-> ToString(id)] :
        k \in 0 .. 1, d \in {MinMoveDuration, DefaultDuration}}

RECURSIVE SessionCollections(_)
SessionCollections(n) ==
    IF n = 0 THEN {<<>>}
    ELSE {Append(c, s) : c \in SessionCollections(n - 1), s \in SessionCaptions(n)}

SessionXs ==
    PointerXs \cup {CanvasWidth \div 2 + k * SessionPxStep : k \in (0 - SessionXSteps) .. SessionXSteps}

\* the editor before a pointer-down: any caption collection (the array is sorted
\* whenever nothing is selected), any selection, the video playing or paused
InitSession ==
    /\ subtitles \in UNION {SessionCollections(n) : n \in 1 .. MaxSessionSubs}
    /\ selectedSubId \in {NULL} \cup {subtitles[i].id : i \in 1 .. Len(subtitles)}
    /\ selectedSubId = NULL => subtitles = SortByStart(subtitles)
    /\ zoomLevel = Rat(InitialZoom, 1)
    /\ isDragging = FALSE
    /\ dragMode = "none"
    /\ dragTargetId = NULL
    /\ dragStartX = 0
    /\ dragStartTime = 0
    /\ dragOriginalStart = 0
    /\ dragOriginalEnd = 0
    /\ isPlaying \in BOOLEAN
    /\ currentTime \in {k * PlayStep : k \in 0 .. DurationSteps}
    /\ paused \in BOOLEAN
    /\ currentTime = Duration => paused
    /\ nextId = Len(subtitles) + 1
    /\ pointerDowns = 0
    /\ zoomOps = 0
    /\ InitExport
    /\ InitDraw
    /\ supportedTypes = {1, 2, 3, 4, 5, 6}

\* one drag session: pointer-down, pointer-moves, pointer-up, with playback running
NextSession ==
    \/ \E x \in SessionXs : pointerDowns = 0 /\ PointerDown(x)
    \/ \E x \in SessionXs : PointerMove(x)
    \/ PointerUp
    \/ PlaybackAdvance

SpecSession == InitSession /\ [][NextSession]_vars

\* the editor before a pointer-down, the video paused at its start or at its end:
\* any caption collection and selection
InitDrag ==
    /\ InitSession
    /\ paused
    /\ ~isPlaying
    /\ currentTime \in {0, Duration}

\* one drag session on the paused video
NextDrag ==
    \/ \E x \in SessionXs : pointerDowns = 0 /\ PointerDown(x)
    \/ \E x \in SessionXs : PointerMove(x)
    \/ PointerUp

SpecDrag == InitDrag /\ [][NextDrag]_vars

\* the zoom levels the buttons give from the initial one: z, min(z * 1.5, 500),
\* max(z / 1.5, 10)
MapperZooms ==
    LET z == FInt(InitialZoom)
        factor == FDiv(FInt(3), FInt(2))
    IN {z, FMul(z, factor), FDiv(z, factor)}

\* canvas.width
MapperWidth == FInt(CanvasWidth)

\* a viewport and a pixel column or a time in seconds, before the round trip
MapperInputs ==
    {[kind |-> "x", input |-> FInt(k * MapperPxStep), centerTime |-> FDiv(FInt(c), FInt(10)),
      zoom |-> z, output |-> FZero, done |-> FALSE] :
        k \in 0 .. (CanvasWidth \div MapperPxStep), c \in 0 .. MapperCenterTenths, z \in MapperZooms}
    \cup
    {[kind |-> "t", input |-> FDiv(FInt(k), FInt(10)), centerTime |-> FDiv(FInt(c), FInt(10)),
      zoom |-> z, output |-> FZero, done |-> FALSE] :
        k \in 0 .. MapperTimeTenths, c \in 0 .. MapperCenterTenths, z \in MapperZooms}

InitMapper ==
    /\ InitTimeline
    /\ InitExport
    /\ supportedTypes = {1, 2, 3, 4, 5, 6}
    /\ audioBuffer = NoAudio
    /\ bars = NoBars
    /\ prevBars = NoBars
    /\ mapper \in MapperInputs
    /\ srtDownload = NoSrt
    /\ overlay = NoOverlay

\* a pixel goes through xToTime and back through timeToX, a time the other way
RoundTrip ==
    /\ ~mapper.done
    /\ mapper' =
         [mapper EXCEPT
            !.output =
                IF mapper.kind = "x"
                THEN timeToXDouble(xToTimeDouble(mapper.input, mapper.centerTime,
                                                 MapperWidth, mapper.zoom),
                                   mapper.centerTime, MapperWidth, mapper.zoom)
                ELSE xToTimeDouble(timeToXDouble(mapper.input, mapper.centerTime,
                                                 MapperWidth, mapper.zoom),
                                   mapper.centerTime, MapperWidth, mapper.zoom),
            !.done = TRUE]
    /\ UNCHANGED <<timelineVars, exportVars, audioBuffer, bars, prevBars, srtDownload, overlay>>

SpecMapper == InitMapper /\ [][RoundTrip]_vars

\* decoded audio: WaveSamples samples at 8 kHz, two signals
AudioBuffers ==
    {[sampleRate |-> 8000, channelData |-> [k \in 1 .. WaveSamples |-> ((k * k) % 7) - SampleScale]],
     [sampleRate |-> 8000, channelData |-> [k \in 1 .. WaveSamples |-> ((k \div 3) % 7) - SampleScale]]}

\* zoomed in once (buckets wider than 40 samples are scanned with a stride) and
\* zoomed in all the way
WaveZooms == {ZoomInValue(Rat(InitialZoom, 1)), Rat(MaxZoom, 1)}

\* playhead positions, in ms: fractions of a bucket apart, and far enough for the
\* first buckets to leave the view
WaveTimes == (0 .. WaveFineSteps) \cup (WaveFar .. (WaveFar + WaveFineSteps))

InitWaveform ==
    /\ subtitles = <<>>
    /\ selectedSubId = NULL
    /\ zoomLevel \in WaveZooms
    /\ isDragging = FALSE
    /\ dragMode = "none"
    /\ dragTargetId = NULL
    /\ dragStartX = 0
    /\ dragStartTime = 0
    /\ dragOriginalStart = 0
    /\ dragOriginalEnd = 0
    /\ isPlaying = FALSE
    /\ currentTime = 0
    /\ paused = TRUE
    /\ nextId = 1
    /\ pointerDowns = 0
    /\ zoomOps = 0
    /\ InitExport
    /\ supportedTypes = {1, 2, 3, 4, 5, 6}
    /\ audioBuffer \in AudioBuffers
    /\ bars = NoBars
    /\ prevBars = NoBars
    /\ mapper = NoTrip
    /\ srtDownload = NoSrt
    /\ overlay = NoOverlay

\* the timeline is redrawn while the playhead moves
NextWaveform ==
    \/ Draw
    \/ \E t \in WaveTimes : VideoTimeChange(t)

SpecWaveform == InitWaveform /\ [][NextWaveform]_vars

\* captions to export, times in ms: the caption of the documented example, one
\* that starts with it, one whose end is not a double after the division by 1000,
\* one past the first hour, one a second behind the example, and the caption a
\* resize-left leaves on a caption that ends before 0.2 s
SrtCaptions ==
    {[id |-> 1, start |-> 1500, end |-> 3250, text |-> <<"H", "e", "l", "l", "o">>],
     [id |-> 2, start |-> 1500, end |-> 3599999, text |-> <<"H", "i">>],
     [id |-> 3, start |-> 0, end |-> 1001, text |-> <<"a">>],
     [id |-> 4, start |-> 3661001, end |-> 3663001, text |-> <<"b", " ", "c">>],
     [id |-> 5, start |-> 2500, end |-> 4004, text |-> <<"1">>],
     [id |-> 6, start |-> 0 - 100, end |-> 100, text |-> <<"N", "e", "w">>]}

\* the collections of at most MaxSrtSubs different captions, in any order
SrtCollections ==
    {c \in UNION {[1 .. n -> SrtCaptions] : n \in 1 .. MaxSrtSubs} :
        \A i, j \in DOMAIN c : i # j => c[i] # c[j]}

\* the editor before an export of the caption file: nothing selected (the list is
\* shown, its array sorted) or the first caption selected
InitSRT ==
    /\ subtitles \in SrtCollections
    /\ selectedSubId \in {NULL, subtitles[1].id}
    /\ selectedSubId = NULL => subtitles = SortByStart(subtitles)
    /\ zoomLevel = Rat(InitialZoom, 1)
    /\ isDragging = FALSE
    /\ dragMode = "none"
    /\ dragTargetId = NULL
    /\ dragStartX = 0
    /\ dragStartTime = 0
    /\ dragOriginalStart = 0
    /\ dragOriginalEnd = 0
    /\ isPlaying = FALSE
    /\ currentTime = 0
    /\ paused = TRUE
    /\ nextId = Cardinality(SrtCaptions) + 1
    /\ pointerDowns = 0
    /\ zoomOps = 0
    /\ InitExport
    /\ supportedTypes = {1, 2, 3, 4, 5, 6}
    /\ InitDraw

\* the caption file is exported
SpecSRT == InitSRT /\ [][ExportSRT]_vars

\* zooming: the zoom buttons are pressed again and again, before and during a
\* scrub of the empty timeline
NextZoom ==
    \/ zoomOps < MaxZoomSteps /\ ZoomIn
    \/ zoomOps < MaxZoomSteps /\ ZoomOut
    \/ \E x \in PointerXs : pointerDowns = 0 /\ PointerDown(x)
    \/ \E x \in PointerXs : PointerMove(x)
    \/ PointerUp

SpecZoom == Init /\ [][NextZoom]_vars

(* ------------------------------- claims ------------------------------- *)

SubIndexes == 1 .. Len(subtitles)
Sessions == 1 .. Len(recorders)
CaptionDrag == {"move-sub", "resize-left", "resize-right"}

C2_StartNonNegative ==
    \A i \in SubIndexes : subtitles[i].start >= 0

\* C3: in a move, resize-left or resize-right drag session, a pointer-move that
\* brings the pointer back to its pointer-down X leaves the target caption with
\* the start and end it had at pointer-down.
C3_ReturnRestores ==
    [][(PointerMove(dragStartX) /\ dragMode \in CaptionDrag)
         => /\ FindById(subtitles', dragTargetId).start = dragOriginalStart
            /\ FindById(subtitles', dragTargetId).end = dragOriginalEnd]_vars

\* C4: no output file is finalized for a session cancelled while rendering: the
\* stop handler of a recorder that closeExport stopped during rendering never
\* assembles and downloads the recording.
C4_NoFileOnCancel ==
    \A s \in downloads : recorders[s].stoppedBy # "cancel"

\* C5: after a cancellation during rendering, and until the next Start Render,
\* the export status is idle and the encoder is inactive.
C5_IdleAfterCancel ==
    (mediaRecorderRef # 0 /\ recorders[mediaRecorderRef].stoppedBy = "cancel")
        => /\ renderStatus = "idle"
           /\ recorders[mediaRecorderRef].state = "inactive"

\* C6: the export status changes only along idle -> rendering, rendering ->
\* completed and rendering -> idle, and it becomes completed only by the stop
\* handler of a session whose playback reached the end of the video.
C6_StatusTransitions ==
    [][/\ renderStatus' # renderStatus
          => <<renderStatus, renderStatus'>> \in {<<"idle", "rendering">>,
                                                   <<"rendering", "completed">>,
                                                   <<"rendering", "idle">>}
       /\ (renderStatus' = "completed" /\ renderStatus # "completed")
          => \E s \in Sessions : /\ recorders[s].stopQueued
                                 /\ ~recorders'[s].stopQueued
                                 /\ recorders[s].stoppedBy = "ended"]_vars

\* C7: at most one encoder is in the recording state.
C7_OneEncoderRecording ==
    Cardinality({s \in Sessions : recorders[s].state = "recording"}) <= 1

\* C8: under fair scheduling of playback, frame callbacks and queued events, a
\* rendering session eventually reaches status completed unless it is cancelled
\* (the dialog is closed) or its playback fails to start (status idle), whatever
\* timeline pointer events come in between.
C8_RenderCompletes ==
    (renderStatus = "rendering")
        ~> (renderStatus = "completed" \/ ~isExportingVideo \/ renderStatus = "idle")

\* C9: once closeExport has stopped a session, that session has no registered
\* frame callback and composites no further frame, also when its play() promise
\* was still pending at the cancel.
C9_NoFrameAfterCancel ==
    [][/\ \A s \in frameCallbacks' : recorders'[s].stoppedBy \notin {"cancel", "close"}
       /\ (canvas' # canvas /\ canvas'.session # 0)
          => recorders[canvas'.session].stoppedBy \notin {"cancel", "close"}]_vars

\* C10: every encoder is created with the first entry of the preference list that
\* the support probe accepts; when the probe accepts no entry, every Start Render
\* is answered by the alert, no encoder exists, playback is not started and the
\* status is idle.
C10_CodecNegotiation ==
    /\ \A s \in Sessions : /\ recorders[s].mimeType \in supportedTypes
                           /\ \A j \in 1 .. (recorders[s].mimeType - 1) : j \notin supportedTypes
    /\ supportedTypes # {} => (alerts = 0 /\ Len(recorders) = starts)
    /\ supportedTypes = {} => /\ alerts = starts
                              /\ recorders = <<>>
                              /\ mediaRecorderRef = 0
                              /\ pendingPlay = {}
                              /\ paused
                              /\ renderStatus = "idle"

\* an encoder was created with the third entry because the probe refuses the first two
C10_Witness ==
    /\ 1 \notin supportedTypes
    /\ 2 \notin supportedTypes
    /\ \E s \in Sessions : recorders[s].mimeType = 3 /\ recorders[s].state = "recording"

\* C11: every frame composited at playback time t carries caption text if and only
\* if some caption has start <= t <= end, and then the text of the first such
\* caption in collection order; otherwise the frame carries the video only.
C11_CompositorSelectsFirst ==
    [][\A s \in Sessions :
          (RenderFrame(s) /\ ~Ended)
              => LET t == currentTime
                     act == {i \in SubIndexes : subtitles[i].start <= t /\ t <= subtitles[i].end}
                 IN /\ canvas'.time = t
                    /\ (canvas'.text # "") <=> (act # {})
                    /\ \A i \in act : (\A j \in act : i <= j) => canvas'.text = subtitles[i].text]_vars

\* a frame composited while two captions with different texts contain the playback
\* time carries the text of the first
C11_Witness ==
    /\ canvas.session # 0
    /\ Len(subtitles) >= 2
    /\ subtitles[1].start <= canvas.time /\ canvas.time <= subtitles[1].end
    /\ subtitles[2].start <= canvas.time /\ canvas.time <= subtitles[2].end
    /\ canvas.time > 0
    /\ canvas.text = subtitles[1].text
    /\ subtitles[1].text # subtitles[2].text

\* the pointer time of a pointer-down at x
PointerTime(x) == xToTime(x, currentTime, CanvasWidth, zoomLevel)

\* a caption with the selected id exists
SelectionLive == \E i \in SubIndexes : subtitles[i].id = selectedSubId

\* the pointer time t lies within the handle margin of the selected caption's start
\* (resp. end)
OnLeftHandle(t) ==
    SelectionLive /\ WithinHandle(t, FindById(subtitles, selectedSubId).start, zoomLevel)
OnRightHandle(t) ==
    SelectionLive /\ WithinHandle(t, FindById(subtitles, selectedSubId).end, zoomLevel)

\* the target caption of the live drag session, before and after the step
Target == FindById(subtitles, dragTargetId)
TargetNext == FindById(subtitles', dragTargetId)

\* C12: for every caption collection, overlapping captions included, a pointer-down
\* whose pointer time lies within the handle margin of the selected caption's start
\* enters resize-left on that caption, and one within the margin of its end (and
\* not of its start) enters resize-right on it.
C12_HandleOfSelectedWins ==
    [][\A x \in SessionXs :
          PointerDown(x)
              => /\ OnLeftHandle(PointerTime(x))
                    => dragMode' = "resize-left" /\ dragTargetId' = selectedSubId
                 /\ (OnRightHandle(PointerTime(x)) /\ ~OnLeftHandle(PointerTime(x)))
                    => dragMode' = "resize-right" /\ dragTargetId' = selectedSubId]_vars

\* C13: a pointer-down that hits no handle of the selected caption and whose pointer
\* time lies within some caption's interval expanded by the handle margin enters
\* move on such a caption and selects it.
C13_MoveOnExpandedInterval ==
    [][\A x \in SessionXs :
          (/\ PointerDown(x)
           /\ ~OnLeftHandle(PointerTime(x))
           /\ ~OnRightHandle(PointerTime(x))
           /\ \E i \in SubIndexes :
                  /\ GeqMinusHandle(PointerTime(x), subtitles[i].start, zoomLevel)
                  /\ LeqPlusHandle(PointerTime(x), subtitles[i].end, zoomLevel))
              => /\ dragMode' = "move-sub"
                 /\ \E i \in SubIndexes :
                        /\ GeqMinusHandle(PointerTime(x), subtitles[i].start, zoomLevel)
                        /\ LeqPlusHandle(PointerTime(x), subtitles[i].end, zoomLevel)
                        /\ dragTargetId' = subtitles[i].id
                        /\ selectedSubId' = subtitles[i].id]_vars

\* C14: a pointer-down that hits neither a handle of the selected caption nor any
\* caption enters scrub with no target caption and clears the selection.
C14_ScrubOnMiss ==
    [][\A x \in SessionXs :
          (/\ PointerDown(x)
           /\ ~OnLeftHandle(PointerTime(x))
           /\ ~OnRightHandle(PointerTime(x))
           /\ \A i \in SubIndexes :
                  ~(subtitles[i].start <= PointerTime(x) /\ PointerTime(x) <= subtitles[i].end))
              => /\ dragMode' = "scrub"
                 /\ dragTargetId' = NULL
                 /\ selectedSubId' = NULL]_vars

\* a scrub session whose pointer-down fell inside the handle margin of a caption
\* but outside the caption
C14_Witness ==
    /\ isDragging
    /\ dragMode = "scrub"
    /\ dragTargetId = NULL
    /\ selectedSubId = NULL
    /\ \E i \in SubIndexes :
           LET t == xToTime(dragStartX, dragStartTime, CanvasWidth, zoomLevel)
           IN /\ t < subtitles[i].start
              /\ GeqMinusHandle(t, subtitles[i].start, zoomLevel)

C16_ResizeRight ==
    [][/\ (isDragging /\ dragMode = "resize-right") => \A x \in SessionXs :
             PointerMove(x)
                 => /\ TargetNext.start = Target.start
                    /\ TargetNext.end = Max(dragOriginalStart + 200,
                                            dragOriginalEnd + DtOf(x - dragStartX, zoomLevel))
       /\ LET hi == [id |-> 1, start |-> 10000, end |-> 12000, text |-> "hi"]
              dragged == DragUpdate(hi, "resize-right", 1, 10000, 12000, 11900 - 12000)
          IN /\ HitTypeOf(hi, 12000, Rat(50, 1), 1) = "right"
             /\ dragged.start = 10000
             /\ dragged.end = 11900]_vars

\* a resize-right drag pulled far to the left is held at originalStart + 0.2 s
C16_Witness ==
    /\ isDragging
    /\ dragMode = "resize-right"
    /\ dragOriginalEnd - dragOriginalStart = DefaultDuration
    /\ Target.start = dragOriginalStart
    /\ Target.end = dragOriginalStart + 200

\* C17: a pointer-move of a move or resize drag hands the owner one caption
\* collection in which only the target caption's start and end may differ from the
\* collection before: length, order, ids, texts and every other caption are kept.
C17_OnlyTargetTimesChange ==
    [][(isDragging /\ dragMode \in CaptionDrag) => \A x \in SessionXs :
          PointerMove(x)
              => /\ Len(subtitles') = Len(subtitles)
                 /\ \A i \in SubIndexes :
                        /\ subtitles'[i].id = subtitles[i].id
                        /\ subtitles'[i].text = subtitles[i].text
                        /\ subtitles[i].id # dragTargetId => subtitles'[i] = subtitles[i]]_vars

\* a drag has moved the first of two captions that started as the same interval
C17_Witness ==
    /\ isDragging
    /\ dragMode \in CaptionDrag
    /\ Len(subtitles) >= 2
    /\ dragTargetId = subtitles[1].id
    /\ subtitles[1].start # dragOriginalStart
    /\ subtitles[2].start = dragOriginalStart
    /\ subtitles[2].end = dragOriginalEnd

\* C18: every pointer-down pauses playback and, entering scrub, notes whether the
\* video was playing; the note and the mode are kept during the session; pointer-up
\* (or pointer-cancel) resumes playback if and only if the mode is scrub and the
\* note says playing, so after a move or resize session playback stays paused.
C18_PauseAndResume ==
    [][/\ \A x \in SessionXs :
             PointerDown(x) => /\ paused'
                               /\ dragMode' = "scrub" => (isPlaying' <=> ~paused)
       /\ (isDragging /\ isDragging') => /\ isPlaying' = isPlaying
                                         /\ dragMode' = dragMode
                                         /\ paused'
       /\ PointerUp => (~paused' <=> (dragMode = "scrub" /\ isPlaying))]_vars

\* playback runs again after a scrub session that began while the video was playing
C18_Witness ==
    /\ ~isDragging
    /\ pointerDowns = 1
    /\ selectedSubId = NULL
    /\ isPlaying
    /\ ~paused

\* C19 as stated: for every viewport with zoom > 0, every time t and every pixel x,
\* xToTime(timeToX(t)) = t and timeToX(xToTime(x)) = x.
C19_ExactInverses ==
    mapper.done => mapper.output = mapper.input

\* C19, amended: for every viewport with zoom > 0, every time t and every pixel x,
\* xToTime(timeToX(t)) and timeToX(xToTime(x)) differ from t and x by at most 2^-30
\* (the mapper functions are inverses up to the rounding of doubles).
C19_InverseWithinTolerance ==
    mapper.done => FAbsLeqPow2(FSub(mapper.output, mapper.input), -30)

\* a time that comes back from the round trip changed by a rounding error
C19_Witness ==
    /\ mapper.done
    /\ mapper.kind = "t"
    /\ mapper.zoom = FInt(InitialZoom)
    /\ mapper.output # mapper.input

\* C20: at fixed zoom and sample rate the sample range, the scan stride and the
\* min/max of the bucket with absolute index i are the same in any two renders
\* that both draw it, whatever their center times.
C20_BucketsIgnoreCenterTime ==
    \A i \in (DOMAIN bars) \cap (DOMAIN prevBars) :
        /\ bars[i].safeStart = prevBars[i].safeStart
        /\ bars[i].safeEnd = prevBars[i].safeEnd
        /\ bars[i].stride = prevBars[i].stride
        /\ bars[i].min = prevBars[i].min
        /\ bars[i].max = prevBars[i].max

\* two renders with different center times share a bucket with a real peak that
\* moved on screen, and one of them draws a bucket the other does not
C20_Witness ==
    /\ DOMAIN bars # DOMAIN prevBars
    /\ \E i \in (DOMAIN bars) \cap (DOMAIN prevBars) :
           /\ bars[i].drawX # prevBars[i].drawX
           /\ bars[i].min < bars[i].max

\* a frame is composited: renderFrame ran past its end-of-video test
FrameComposited == canvas' # canvas /\ canvas'.session # 0

SessionOver ==
    \/ renderStatus = "completed"
    \/ mediaRecorderRef # 0 /\ recorders[mediaRecorderRef].stoppedBy \in {"cancel", "close"}

\* C22: previousVolumeRef holds the audio level the video had when the dialog was
\* opened (it is written at the opening and at no other step), and whenever the
\* export session is over the video's volume equals it, muted preview or not.
C22_VolumeRestored ==
    [][/\ (isExportingVideo' /\ ~isExportingVideo) => previousVolumeRef' = volume
       /\ ~(isExportingVideo' /\ ~isExportingVideo) => previousVolumeRef' = previousVolumeRef
       /\ SessionOver' => volume' = previousVolumeRef']_vars

\* a session that played muted has completed, or was cancelled while muted
C22_Witness ==
    /\ mutePreview
    /\ previousVolumeRef # 0
    /\ volume = previousVolumeRef
    /\ mediaRecorderRef # 0
    /\ \/ renderStatus = "completed" /\ recorders[mediaRecorderRef].stoppedBy = "ended"
       \/ recorders[mediaRecorderRef].stoppedBy = "cancel"

\* the lines of a text: what stands between its newline characters
SplitLines(chars) ==
    LET newlines == {i \in 1 .. Len(chars) : chars[i] = "\n"}
        \* the position of the k-th newline; 0 and Len(chars) + 1 bound the text
        at(k) == IF k = 0 THEN 0
                 ELSE IF k > Cardinality(newlines) THEN Len(chars) + 1
                 ELSE CHOOSE i \in newlines : Cardinality({j \in newlines : j < i}) = k - 1
    IN [k \in 1 .. (Cardinality(newlines) + 1) |-> SubSeq(chars, at(k - 1) + 1, at(k) - 1)]

DigitOf(c) == CHOOSE d \in 0 .. 9 : DigitChars[d + 1] = c
IsDigit(c) == \E d \in 0 .. 9 : DigitChars[d + 1] = c

\* chars is HH:MM:SS,mmm
IsTimestamp(chars) ==
    /\ Len(chars) = 12
    /\ chars[3] = ":" /\ chars[6] = ":" /\ chars[9] = ","
    /\ \A i \in {1, 2, 4, 5, 7, 8, 10, 11, 12} : IsDigit(chars[i])
    /\ DigitOf(chars[4]) < 6 /\ DigitOf(chars[7]) < 6

\* the milliseconds a timestamp stands for
TimestampMs(chars) ==
    (DigitOf(chars[1]) * 10 + DigitOf(chars[2])) * 3600000
    + (DigitOf(chars[4]) * 10 + DigitOf(chars[5])) * 60000
    + (DigitOf(chars[7]) * 10 + DigitOf(chars[8])) * 1000
    + DigitOf(chars[10]) * 100 + DigitOf(chars[11]) * 10 + DigitOf(chars[12])

\* chars is the timestamp of the time: a timestamp, and for a time of the first
\* day the time cut to whole milliseconds (the double nearest to 1.001 lies
\* below 1.001 and is written 00:00:01,000)
IsTimestampOf(chars, time) ==
    /\ IsTimestamp(chars)
    /\ (0 <= time /\ time < MsPerDay)
          => (time - 1 <= TimestampMs(chars) /\ TimestampMs(chars) <= time)

\* content is the SRT file of subs: four lines per caption (the number counted
\* from 1, 'start --> end', the text, nothing), the captions in ascending start
\* order, each caption once, the file ending with the newline of the last text
IsSrtOf(content, subs) ==
    LET lines == SplitLines(content)
        n == Len(subs)
    IN /\ Len(lines) = 4 * n
       /\ \E p \in Permutations(1 .. n) :
             /\ \A k \in 1 .. (n - 1) : subs[p[k]].start <= subs[p[k + 1]].start
             /\ \A k \in 1 .. n :
                   /\ lines[4 * k - 3] = Decimal(k)
                   /\ Len(lines[4 * k - 2]) = 29
                   /\ IsTimestampOf(SubSeq(lines[4 * k - 2], 1, 12), subs[p[k]].start)
                   /\ SubSeq(lines[4 * k - 2], 13, 17) = <<" ", "-", "-", ">", " ">>
                   /\ IsTimestampOf(SubSeq(lines[4 * k - 2], 18, 29), subs[p[k]].end)
                   /\ lines[4 * k - 1] = subs[p[k]].text
                   /\ lines[4 * k] = <<>>

\* '1\n00:00:01,500 --> 00:00:03,250\nHello\n'
SrtExample ==
    <<"1", "\n",
      "0", "0", ":", "0", "0", ":", "0", "1", ",", "5", "0", "0",
      " ", "-", "-", ">", " ",
      "0", "0", ":", "0", "0", ":", "0", "3", ",", "2", "5", "0", "\n",
      "H", "e", "l", "l", "o", "\n">>

\* C23: the file exportSRT saves holds the captions in ascending start order,
\* numbered from 1, each as the number line, the 'start --> end' line of two
\* HH:MM:SS,mmm timestamps and the text, with one blank line between entries; the
\* caption {1.5, 3.25, Hello} alone gives '1\n00:00:01,500 --> 00:00:03,250\nHello\n'.
C23_SrtFormat ==
    [][srtDownload' # srtDownload
          => /\ IsSrtOf(srtDownload'.content, subtitles)
             /\ (Len(subtitles) = 1 /\ subtitles[1].start = 1500 /\ subtitles[1].end = 3250
                 /\ subtitles[1].text = <<"H", "e", "l", "l", "o">>)
                   => srtDownload'.content = SrtExample]_vars

\* a saved file of three captions, two of them starting together and kept in the
\* order the collection had them
C23_Witness ==
    /\ srtDownload.saved
    /\ Len(subtitles) = 3
    /\ subtitles[1].start = subtitles[2].start
    /\ subtitles[1].id > subtitles[2].id
    /\ IsSrtOf(srtDownload.content, subtitles)

\* C24: whatever zoom buttons were pressed, zoom lies in [10, 500] and is
\* positive, in every state, so whenever a mapper function or dx / zoom is evaluated.
C24_ZoomInRange ==
    /\ RatLeq(Rat(MinZoom, 1), zoomLevel)
    /\ RatLeq(zoomLevel, Rat(MaxZoom, 1))
    /\ zoomLevel.n > 0
    /\ zoomLevel.d > 0

\* a drag is evaluated at a zoom one of the clamps has produced
C24_Witness ==
    /\ isDragging
    /\ currentTime # 0
    /\ zoomLevel \in {Rat(MinZoom, 1), Rat(MaxZoom, 1)}

C26_PathIndependent ==
    [][(isDragging /\ dragMode \in CaptionDrag) => \A x \in SessionXs :
          PointerMove(x)
              => LET atPointerDown == [Target EXCEPT !.start = dragOriginalStart,
                                                     !.end = dragOriginalEnd]
                     direct == DragUpdate(atPointerDown, dragMode, dragTargetId,
                                          dragOriginalStart, dragOriginalEnd,
                                          DtOf(x - dragStartX, zoomLevel))
                 IN /\ TargetNext.start = direct.start
                    /\ TargetNext.end = direct.end]_vars

\* a caption drag whose earlier pointer-moves have changed both times of the target
C26_Witness ==
    /\ isDragging
    /\ dragMode = "move-sub"
    /\ Target.start # dragOriginalStart
    /\ Target.end # dragOriginalEnd
    /\ Target.end - Target.start # dragOriginalEnd - dragOriginalStart

\* the drag session is cleared
DragIdle == ~isDragging /\ dragMode = "none" /\ dragTargetId = NULL

\* C27: dragging holds exactly when the mode is not none, a target caption is set
\* only in the move and resize modes, and a pointer-up or pointer-cancel leaves
\* the machine idle: not dragging, mode none, no target.
C27_DragStateConsistent ==
    [][/\ isDragging' <=> dragMode' # "none"
       /\ dragTargetId' # NULL => dragMode' \in CaptionDrag
       /\ PointerUp => DragIdle']_vars

\* idle again after two drag sessions, one of which changed a caption
C27_Witness ==
    /\ DragIdle
    /\ pointerDowns = 2
    /\ \E i \in SubIndexes : subtitles[i].end - subtitles[i].start # DefaultDuration

\* C28: a pointer-move of a scrub drag sets the playback time to
\* max(0, playbackTimeAtStart - dx / zoom), a time that is not negative (the player
\* holds a time past the end of the video at the end), and changes no caption
\* and emits no collection.
C28_ScrubSetsTime ==
    [][(isDragging /\ dragMode = "scrub") => \A x \in SessionXs :
          PointerMove(x)
              => LET dt == DtOf(x - dragStartX, zoomLevel)
                     time == IF dragStartTime - dt >= 0 THEN dragStartTime - dt ELSE 0
                 IN /\ currentTime' >= 0
                    /\ time <= Duration => currentTime' = time
                    /\ time > Duration => currentTime' = Duration
                    /\ subtitles' = subtitles]_vars

\* a scrub drag over captions has moved the playhead to a later time, short of the end
C28_Witness ==
    /\ isDragging
    /\ dragMode = "scrub"
    /\ subtitles # <<>>
    /\ dragStartTime < currentTime
    /\ currentTime < Duration

\* the buckets i and i + 1 are both drawn
AdjacentBars == {i \in DOMAIN bars : i + 1 \in DOMAIN bars}

\* C29 as stated: the rectangles of adjacent visible buckets tile exactly, the
\* left bucket's right edge drawX + drawW being the right bucket's drawX.
C29_ExactTiling ==
    \A i \in AdjacentBars : bars[i].drawX + bars[i].drawW = bars[i + 1].drawX

\* C29 amended: the left bucket's right edge is the right bucket's drawX or one
\* pixel column past it: no gap, and never more than one shared column.
C29_NoGapOneColumn ==
    \A i \in AdjacentBars :
        /\ bars[i].drawX + bars[i].drawW >= bars[i + 1].drawX
        /\ bars[i].drawX + bars[i].drawW <= bars[i + 1].drawX + 1

\* a render whose adjacent buckets share a pixel column, after one whose did not
C29_Witness ==
    /\ \E i \in AdjacentBars : bars[i].drawX + bars[i].drawW = bars[i + 1].drawX + 1
    /\ \E i \in DOMAIN prevBars :
           /\ i + 1 \in DOMAIN prevBars
           /\ prevBars[i].drawX + prevBars[i].drawW = prevBars[i + 1].drawX

\* the text the preview shows: the overlay's text while it is displayed
OverlayShown == IF overlay.display = "block" THEN overlay.innerText ELSE ""

\* C30: a frame composited and an overlay updated at the same playback time on
\* the same collection carry the same text, or both none.
C30_PreviewMatchesExport ==
    (canvas.session # 0 /\ overlay.updated /\ overlay.time = canvas.time)
        => OverlayShown = canvas.text

\* overlay and frame were taken at the end time of a caption that another caption
\* overlaps, and both show the first caption's text
C30_Witness ==
    /\ canvas.session # 0
    /\ overlay.updated
    /\ overlay.time = canvas.time
    /\ Len(subtitles) >= 2
    /\ subtitles[1].end = canvas.time
    /\ subtitles[2].start <= canvas.time /\ canvas.time <= subtitles[2].end
    /\ subtitles[1].text # subtitles[2].text
    /\ overlay.display = "block"
    /\ overlay.innerText = subtitles[1].text
    /\ canvas.text = subtitles[1].text

\* C31: whenever the export status is idle or completed, no encoder is in the
\* recording state, whatever Start Render, cancel, codec-probe outcomes and
\* play() settlements came before.
C31_NoEncoderWhenIdle ==
    renderStatus \in {"idle", "completed"}
        => \A s \in Sessions : recorders[s].state # "recording"

\* the ids of a collection, in its order
IdsOf(subs) == [i \in 1 .. Len(subs) |-> subs[i].id]

\* C32: the order of the caption collection changes only by add (a caption
\* appended at the end) and by delete (one caption removed): every other step,
\* drag updates, rendering the caption list and generating the SRT text included,
\* leaves the ids in the order they had.
C32_OrderOnlyByAddDelete ==
    [][LET before == IdsOf(subtitles)
           after == IdsOf(subtitles')
       IN \/ after = before
          \/ /\ Len(after) = Len(before) + 1
             /\ SubSeq(after, 1, Len(before)) = before
          \/ /\ Len(after) = Len(before) - 1
             /\ \E k \in 1 .. Len(before) :
                    after = SubSeq(before, 1, k - 1) \o SubSeq(before, k + 1, Len(before))]_vars

\* C33: a startRendering whose codec negotiation finds no supported entry (the
\* call that raises the alert) leaves the video's audio level and its playback
\* position as they were before the call.
C33_NoCodecLeavesPlayback ==
    [][(SelectMimeType(supportedTypes) = 0 /\ alerts' = alerts + 1)
          => /\ volume' = volume
             /\ currentTime' = currentTime]_vars

\* C34: while a session renders, the export progress reported with a composited
\* frame is never below the progress reported with the session's frame before
\* it, whatever timeline pointer events (scrub, move, resize) come in between.
C34_ProgressMonotone ==
    [][(/\ FrameComposited
        /\ renderStatus = "rendering"
        /\ canvas.session = canvas'.session)
          => RatLeq(exportProgress, exportProgress')]_vars

====
